---- MODULE Spec2Model ----
(***************************************************************************)
(* A model of tradingbot.py: the HMAC request signer (generate_signature), *)
(* the request dispatcher (make_authenticated_request) and the example     *)
(* driver (__main__).                                                      *)
(*                                                                         *)
(* Python str values are sequences of one-character strings; bytes values  *)
(* are sequences of integers 0..255.                                       *)
(***************************************************************************)
EXTENDS Integers, Sequences, FiniteSets, TLC

\* ------------------------------------------------------------------ bounds
\* Largest reading of the millisecond clock.
MaxClock == 1
\* Number of dispatcher calls an importing caller makes.
MaxCalls == 2
\* Longest secret, method, path and body the signer harness draws.
MaxSignLen == 1

\* ----------------------------------------------------------------- strings
\* U+0060, GRAVE ACCENT, which has no string literal in TLA+.
Backtick == "backtick"

\* The printable ASCII characters, in code-point order starting at 32.
Ascii ==
  << " ", "!", "\"", "#", "$", "%", "&", "'", "(", ")", "*", "+", ",", "-", ".", "/",
     "0", "1", "2", "3", "4", "5", "6", "7", "8", "9", ":", ";", "<", "=", ">", "?",
     "@", "A", "B", "C", "D", "E", "F", "G", "H", "I", "J", "K", "L", "M", "N", "O",
     "P", "Q", "R", "S", "T", "U", "V", "W", "X", "Y", "Z", "[", "\\", "]", "^", "_",
     Backtick, "a", "b", "c", "d", "e", "f", "g", "h", "i", "j", "k", "l", "m", "n", "o",
     "p", "q", "r", "s", "t", "u", "v", "w", "x", "y", "z", "{", "|", "}", "~" >>

\* The one non-ASCII character of the model: U+00DF, LATIN SMALL LETTER SHARP S.
SharpS == "sharp-s"

IsAscii(c) == \E i \in 1..Len(Ascii) : Ascii[i] = c

\* ord(c) for an ASCII character.
Ord(c) == 31 + (CHOOSE i \in 1..Len(Ascii) : Ascii[i] = c)

\* chr(n) for 32 <= n <= 126.
Chr(n) == Ascii[n - 31]

\* str.upper() of one character: a..z map to A..Z, U+00DF maps to "SS",
\* every other character of the model is unchanged.
UpperChar(c) ==
  IF c = SharpS THEN << "S", "S" >>
  ELSE IF IsAscii(c) /\ Ord(c) >= 97 /\ Ord(c) <= 122 THEN << Chr(Ord(c) - 32) >>
  ELSE << c >>

RECURSIVE Upper(_)
\* str.upper()
Upper(s) == IF s = << >> THEN << >> ELSE UpperChar(Head(s)) \o Upper(Tail(s))

\* str.encode('utf-8') of one character.
Utf8Char(c) == IF c = SharpS THEN << 195, 159 >> ELSE << Ord(c) >>

RECURSIVE Utf8(_)
\* str.encode('utf-8')
Utf8(s) == IF s = << >> THEN << >> ELSE Utf8Char(Head(s)) \o Utf8(Tail(s))

RECURSIVE StrNat(_)
\* str(n) for an int n >= 0: its decimal digits.
StrNat(n) ==
  IF n < 10 THEN << Chr(48 + n) >> ELSE StrNat(n \div 10) \o << Chr(48 + (n % 10)) >>

\* ------------------------------------------------------------------ signer
\* hmac.new(key, msg, hashlib.sha256).digest(), kept symbolic: the digest of
\* (key, msg) is the pair itself, so distinct pairs have distinct digests.
HmacSha256(key, msg) == [alg |-> "hmac-sha256", key |-> key, msg |-> msg]

\* base64.b64encode(d).decode('utf-8'), kept symbolic and injective.
B64(d) == [enc |-> "base64", of |-> d]

\* The method as concatenated into the message without normalisation.
MethodAsGiven(method) == method

\* method.upper() as it enters the signed message.
SignedMethod(method) == Upper(method)

\* The message, f"{timestamp}{method.upper()}{path}{body}".
Message(timestamp, method, path, body) ==
  timestamp \o SignedMethod(method) \o path \o body

\* A signer whose message leaves the body out.
generate_signature_nobody(api_key, client_id, secret, timestamp, method, path, body) ==
  B64(HmacSha256(Utf8(secret), Utf8(Message(timestamp, method, path, << >>))))

generate_signature(api_key, client_id, secret, timestamp, method, path, body) ==
  B64(HmacSha256(Utf8(secret), Utf8(Message(timestamp, method, path, body))))

\* ------------------------------------------------------------ Python values
\* A Python value: its type name t, and by type an int n, a str s or the
\* items of a container (a dict's items alternate key, value).
PyNone == [t |-> "NoneType", n |-> 0, s |-> << >>, items |-> << >>]
PyBool(b) == [t |-> "bool", n |-> IF b THEN 1 ELSE 0, s |-> << >>, items |-> << >>]
PyInt(n) == [t |-> "int", n |-> n, s |-> << >>, items |-> << >>]
PyStr(s) == [t |-> "str", n |-> 0, s |-> s, items |-> << >>]
PyList(items) == [t |-> "list", n |-> 0, s |-> << >>, items |-> items]
PyDict(items) == [t |-> "dict", n |-> 0, s |-> << >>, items |-> items]
PySet(items) == [t |-> "set", n |-> 0, s |-> << >>, items |-> items]
\* float('nan')
PyNaN == [t |-> "float", n |-> 0, s |-> << "n", "a", "n" >>, items |-> << >>]

\* bool(v): the truth value Python's `if v:` tests.
Truthy(v) ==
  CASE v.t = "NoneType" -> FALSE
    [] v.t \in {"bool", "int"} -> v.n # 0
    [] v.t = "float" -> TRUE
    [] v.t = "str" -> v.s # << >>
    [] OTHER -> v.items # << >>

\* The test `data is not None`.
IsNotNone(v) == v.t # "NoneType"

DQ == "\""
BS == "\\"

\* The JSON escape of one character of a str (ensure_ascii=True).
EscapeChar(c) ==
  IF c = DQ THEN << BS, DQ >>
  ELSE IF c = BS THEN << BS, BS >>
  ELSE IF c = SharpS THEN << BS, "u", "0", "0", "d", "f" >>
  ELSE << c >>

RECURSIVE Escape(_)
Escape(s) == IF s = << >> THEN << >> ELSE EscapeChar(Head(s)) \o Escape(Tail(s))

JsonOk(s) == [exc |-> "", s |-> s]
JsonErr(e) == [exc |-> e, s |-> << >>]

RECURSIVE Encode(_, _), EncodeList(_, _, _), EncodeDict(_, _, _)
\* json.dumps(v, allow_nan=allow_nan) with the default separators ", " and
\* ": ": the text, or the exception raised.
Encode(v, allow_nan) ==
  CASE v.t = "NoneType" -> JsonOk(<< "n", "u", "l", "l" >>)
    [] v.t = "bool" ->
         JsonOk(IF v.n = 1 THEN << "t", "r", "u", "e" >> ELSE << "f", "a", "l", "s", "e" >>)
    [] v.t = "int" -> JsonOk(IF v.n < 0 THEN << "-" >> \o StrNat(-v.n) ELSE StrNat(v.n))
    [] v.t = "float" ->
         IF allow_nan THEN JsonOk(<< "N", "a", "N" >>) ELSE JsonErr("ValueError")
    [] v.t = "str" -> JsonOk(<< DQ >> \o Escape(v.s) \o << DQ >>)
    [] v.t = "list" ->
         IF v.items = << >> THEN JsonOk(<< "[", "]" >>)
         ELSE EncodeList(v.items, allow_nan, << "[" >>)
    [] v.t = "dict" ->
         IF v.items = << >> THEN JsonOk(<< "{", "}" >>)
         ELSE EncodeDict(v.items, allow_nan, << "{" >>)
    [] OTHER -> JsonErr("TypeError")

EncodeList(items, allow_nan, acc) ==
  LET r == Encode(Head(items), allow_nan)
  IN  IF r.exc # "" THEN r
      ELSE IF Len(items) = 1 THEN JsonOk(acc \o r.s \o << "]" >>)
      ELSE EncodeList(Tail(items), allow_nan, acc \o r.s \o << ",", " " >>)

EncodeDict(items, allow_nan, acc) ==
  LET k == items[1]
      r == Encode(items[2], allow_nan)
      rest == Tail(Tail(items))
  IN  IF k.t # "str" THEN JsonErr("TypeError")
      ELSE IF r.exc # "" THEN r
      ELSE LET e == acc \o << DQ >> \o Escape(k.s) \o << DQ, ":", " " >> \o r.s
           IN  IF rest = << >> THEN JsonOk(e \o << "}" >>)
               ELSE EncodeDict(rest, allow_nan, e \o << ",", " " >>)

\* json.dumps(data), as the dispatcher calls it.
JsonDumps(v) == Encode(v, TRUE)

\* --------------------------------------------------------------- JSON parse
IsDigit(c) == IsAscii(c) /\ Ord(c) >= 48 /\ Ord(c) <= 57

RECURSIVE SkipWs(_, _)
SkipWs(s, i) == IF i <= Len(s) /\ s[i] = " " THEN SkipWs(s, i + 1) ELSE i

StartsWith(s, i, lit) ==
  i + Len(lit) - 1 <= Len(s) /\ SubSeq(s, i, i + Len(lit) - 1) = lit

ParseOk(v, i) == [ok |-> TRUE, v |-> v, i |-> i]
ParseFail == [ok |-> FALSE, v |-> PyNone, i |-> 0]

RECURSIVE ScanDigits(_, _, _)
ScanDigits(s, i, acc) ==
  IF i <= Len(s) /\ IsDigit(s[i]) THEN ScanDigits(s, i + 1, 10 * acc + (Ord(s[i]) - 48))
  ELSE ParseOk(PyInt(acc), i)

RECURSIVE ScanString(_, _, _)
\* The str whose opening quote precedes position i.
ScanString(s, i, acc) ==
  IF i > Len(s) THEN ParseFail
  ELSE IF s[i] = DQ THEN ParseOk(PyStr(acc), i + 1)
  ELSE IF s[i] = BS THEN
    IF i + 1 <= Len(s) /\ s[i + 1] \in {DQ, BS}
    THEN ScanString(s, i + 2, Append(acc, s[i + 1]))
    ELSE ParseFail
  ELSE ScanString(s, i + 1, Append(acc, s[i]))

RECURSIVE DictPut(_, _, _)
\* d[k] = v on the items of a dict.
DictPut(items, k, v) ==
  IF items = << >> THEN << k, v >>
  ELSE IF items[1] = k THEN << k, v >> \o Tail(Tail(items))
  ELSE << items[1], items[2] >> \o DictPut(Tail(Tail(items)), k, v)

RECURSIVE ParseValue(_, _), ParseElements(_, _, _), ParseMembers(_, _, _)
ParseValue(s, i0) ==
  LET i == SkipWs(s, i0)
  IN  IF i > Len(s) THEN ParseFail
      ELSE IF StartsWith(s, i, << "n", "u", "l", "l" >>) THEN ParseOk(PyNone, i + 4)
      ELSE IF StartsWith(s, i, << "t", "r", "u", "e" >>) THEN ParseOk(PyBool(TRUE), i + 4)
      ELSE IF StartsWith(s, i, << "f", "a", "l", "s", "e" >>) THEN ParseOk(PyBool(FALSE), i + 5)
      ELSE IF StartsWith(s, i, << "N", "a", "N" >>) THEN ParseOk(PyNaN, i + 3)
      ELSE IF IsDigit(s[i]) THEN ScanDigits(s, i, 0)
      ELSE IF s[i] = DQ THEN ScanString(s, i + 1, << >>)
      ELSE IF s[i] = "[" THEN
        LET j == SkipWs(s, i + 1)
        IN  IF j <= Len(s) /\ s[j] = "]" THEN ParseOk(PyList(<< >>), j + 1)
            ELSE ParseElements(s, i + 1, << >>)
      ELSE IF s[i] = "{" THEN
        LET j == SkipWs(s, i + 1)
        IN  IF j <= Len(s) /\ s[j] = "}" THEN ParseOk(PyDict(<< >>), j + 1)
            ELSE ParseMembers(s, i + 1, << >>)
      ELSE ParseFail

ParseElements(s, i, acc) ==
  LET r == ParseValue(s, i)
      j == SkipWs(s, r.i)
  IN  IF ~r.ok \/ j > Len(s) THEN ParseFail
      ELSE IF s[j] = "," THEN ParseElements(s, j + 1, Append(acc, r.v))
      ELSE IF s[j] = "]" THEN ParseOk(PyList(Append(acc, r.v)), j + 1)
      ELSE ParseFail

ParseMembers(s, i, acc) ==
  LET a == SkipWs(s, i)
      k == IF a <= Len(s) /\ s[a] = DQ THEN ScanString(s, a + 1, << >>) ELSE ParseFail
      b == SkipWs(s, k.i)
      r == IF k.ok /\ b <= Len(s) /\ s[b] = ":" THEN ParseValue(s, b + 1) ELSE ParseFail
      j == SkipWs(s, r.i)
  IN  IF ~r.ok \/ j > Len(s) THEN ParseFail
      ELSE IF s[j] = "," THEN ParseMembers(s, j + 1, DictPut(acc, k.v, r.v))
      ELSE IF s[j] = "}" THEN ParseOk(PyDict(DictPut(acc, k.v, r.v)), j + 1)
      ELSE ParseFail

\* json.loads(text): the value, or JSONDecodeError.
JsonLoads(text) ==
  LET r == ParseValue(text, 1)
  IN  IF r.ok /\ SkipWs(text, r.i) > Len(text) THEN [exc |-> "", v |-> r.v]
      ELSE [exc |-> "JSONDecodeError", v |-> PyNone]


\* ------------------------------------------------------------ configuration
\* The fallback literals of os.getenv.
YOUR_ROBINHOOD_API_KEY ==
  << "Y", "O", "U", "R", "_", "R", "O", "B", "I", "N", "H", "O", "O", "D", "_", "A",
     "P", "I", "_", "K", "E", "Y" >>
YOUR_ROBINHOOD_CLIENT_ID ==
  << "Y", "O", "U", "R", "_", "R", "O", "B", "I", "N", "H", "O", "O", "D", "_", "C",
     "L", "I", "E", "N", "T", "_", "I", "D" >>
YOUR_ROBINHOOD_SHARED_SECRET ==
  << "Y", "O", "U", "R", "_", "R", "O", "B", "I", "N", "H", "O", "O", "D", "_", "S",
     "H", "A", "R", "E", "D", "_", "S", "E", "C", "R", "E", "T" >>
YOUR_ROBINHOOD_ACCOUNT_NUMBER ==
  << "Y", "O", "U", "R", "_", "R", "O", "B", "I", "N", "H", "O", "O", "D", "_", "A",
     "C", "C", "O", "U", "N", "T", "_", "N", "U", "M", "B", "E", "R" >>

BASE_URL ==
  << "h", "t", "t", "p", "s", ":", "/", "/", "t", "r", "a", "d", "i", "n", "g", ".",
     "r", "o", "b", "i", "n", "h", "o", "o", "d", ".", "c", "o", "m", "/", "a", "p",
     "i", "/", "v", "1", "/", "c", "r", "y", "p", "t", "o", "/" >>

\* An environment variable: unset, or set to a str.
EnvUnset == [set |-> FALSE, v |-> << >>]
EnvSet(v) == [set |-> TRUE, v |-> v]

\* os.getenv(name, default)
Getenv(env, name, default) == IF env[name].set THEN env[name].v ELSE default

\* The module-level credentials, read once when the module is loaded.
Credentials(env) ==
  [ ROBINHOOD_API_KEY |-> Getenv(env, "RH_API_KEY", YOUR_ROBINHOOD_API_KEY),
    ROBINHOOD_CLIENT_ID |-> Getenv(env, "RH_CLIENT_ID", YOUR_ROBINHOOD_CLIENT_ID),
    ROBINHOOD_SHARED_SECRET |-> Getenv(env, "RH_SHARED_SECRET", YOUR_ROBINHOOD_SHARED_SECRET),
    ROBINHOOD_ACCOUNT_NUMBER |->
      Getenv(env, "RH_ACCOUNT_NUMBER", YOUR_ROBINHOOD_ACCOUNT_NUMBER) ]

\* The environments the process is started in: each variable unset or set.
Environments ==
  { [ RH_API_KEY |-> IF k THEN EnvSet(<< "k", "1" >>) ELSE EnvUnset,
      RH_CLIENT_ID |-> IF o THEN EnvSet(<< "c", "1" >>) ELSE EnvUnset,
      RH_SHARED_SECRET |-> IF o THEN EnvSet(<< "s", "1" >>) ELSE EnvUnset,
      RH_ACCOUNT_NUMBER |-> IF o THEN EnvSet(<< "7" >>) ELSE EnvUnset ] :
    k \in BOOLEAN, o \in BOOLEAN }

AllUnset(env) == \A name \in DOMAIN env : ~env[name].set


\* The driver's literals.
AccountPathPrefix ==
  << "t", "r", "a", "d", "i", "n", "g", "/", "a", "c", "c", "o", "u", "n", "t", "s",
     "/" >>
AccountPathSuffix ==
  << "/", "c", "r", "y", "p", "t", "o", "_", "h", "o", "l", "d", "i", "n", "g", "s",
     "/" >>

\* -------------------------------------------------------------------- state
VARIABLES
  environ,       \* the process environment the module was loaded in
  cred,          \* the module globals ROBINHOOD_API_KEY .. ROBINHOOD_ACCOUNT_NUMBER
  runAs,         \* "__main__": run as a script; "import": a caller imports it
  requestsEra,   \* the installed requests library: "legacy" (< 2.27) or "modern"
  clock,         \* time.time() in milliseconds
  nWire,         \* HTTP requests the process has issued so far
  pc,            \* where the dispatcher call in progress stands
  args,          \* its arguments method, path, data
  frame,         \* its locals timestamp, body, signature, headers, url
  sent,          \* the request it handed to the HTTP layer
  reply,         \* what the HTTP layer answered: a response or a transport error
  outcome,       \* how the call ended: a returned value or a raised exception
  hist,          \* history of the call: clock reads, signer arguments, requests
  printed,       \* the lines the call has printed
  mainPc,        \* where the example driver stands
  account_info,  \* the driver's account_info
  mainPrinted,   \* the lines the driver has printed
  calls,         \* dispatcher calls an importing caller has made
  sgPc,          \* signer harness: "drawn", "signed", "compared"
  sgIn,          \* signer harness: the inputs of the first application
  sgAlt,         \* signer harness: the inputs of the second application
  sgOut,         \* signer harness: the first signature
  sgAltOut       \* signer harness: the second signature

procVars == << environ, cred, runAs, requestsEra >>
callVars == << pc, args, frame, sent, reply, outcome, hist, printed >>
mainVars == << mainPc, account_info, mainPrinted >>
sgVars == << sgPc, sgIn, sgAlt, sgOut, sgAltOut >>
vars == << procVars, clock, nWire, callVars, mainVars, calls, sgVars >>

\* ----------------------------------------------------------- unbound values
NoSignature == [enc |-> "unbound", of |-> HmacSha256(<< >>, << >>)]
NoHeaders ==
  [ ContentType |-> << >>, Accept |-> << >>, XRobinhoodAPIKey |-> << >>,
    XRobinhoodClientId |-> << >>, XRobinhoodSignature |-> NoSignature,
    XRobinhoodTimestamp |-> << >> ]
NoArgs == [method |-> << >>, path |-> << >>, data |-> PyNone]
NoFrame ==
  [ timestamp |-> << >>, body |-> << >>, signature |-> NoSignature,
    headers |-> NoHeaders, url |-> << >> ]
NoRequest ==
  [ issued |-> FALSE, method |-> << >>, url |-> << >>, headers |-> NoHeaders,
    hasBody |-> FALSE, payload |-> << >> ]
NoReply == [kind |-> "none", status |-> 0, text |-> << >>, exc |-> ""]
NoSigned == [timestamp |-> << >>, method |-> << >>, path |-> << >>, body |-> << >>]
NoHist ==
  [ clockReads |-> 0, clockRead |-> 0, signCalls |-> 0, signed |-> NoSigned,
    httpCalls |-> 0, requests |-> 0 ]

Running == [kind |-> "running", value |-> PyNone, exc |-> ""]
Return(v) == [kind |-> "return", value |-> v, exc |-> ""]
Raise(e) == [kind |-> "raise", value |-> PyNone, exc |-> e]

\* ------------------------------------------------- the requests library
\* The base class of each exception class the calls can raise.
BaseOf(cls) ==
  CASE cls = "HTTPError" -> "RequestException"
    [] cls = "ConnectionError" -> "RequestException"
    [] cls = "SSLError" -> "ConnectionError"
    [] cls = "ConnectTimeout" -> "ConnectionError"
    [] cls = "Timeout" -> "RequestException"
    [] cls = "ReadTimeout" -> "Timeout"
    [] cls = "InvalidJSONError" -> "RequestException"
    [] cls = "JSONDecodeError" -> "InvalidJSONError"
    [] cls = "RequestException" -> "OSError"
    [] cls = "json.JSONDecodeError" -> "ValueError"
    [] cls \in {"OSError", "ValueError", "TypeError"} -> "Exception"
    [] OTHER -> ""

RECURSIVE IsInstance(_, _)
\* isinstance(exc, cls), for an exception named by its class.
IsInstance(exc, cls) ==
  exc # "" /\ (exc = cls \/ IsInstance(BaseOf(exc), cls))

\* The transport errors requests raises: DNS and refused connections
\* (ConnectionError), TLS (SSLError), timeouts (ConnectTimeout, ReadTimeout).
TransportErrors == {"ConnectionError", "SSLError", "ConnectTimeout", "ReadTimeout"}

\* A raise_for_status that raises for every status but 200.
RaiseForStatusNot200(status) == IF status # 200 THEN "HTTPError" ELSE ""

\* A raise_for_status that raises for server errors only.
RaiseForStatusServerOnly(status) ==
  IF status >= 500 /\ status < 600 THEN "HTTPError" ELSE ""

\* response.raise_for_status(): HTTPError for 400 <= status < 600.
RaiseForStatus(status) == IF status >= 400 /\ status < 600 THEN "HTTPError" ELSE ""

\* response.json(): the parsed body, or the library's decode error.
ResponseJson(text, era) ==
  LET r == JsonLoads(text)
  IN  IF r.exc = "" THEN [exc |-> "", value |-> r.v]
      ELSE [ exc |-> IF era = "modern" THEN "JSONDecodeError" ELSE "json.JSONDecodeError",
             value |-> PyNone ]

\* The body requests prepares for json=data: none when data is None, else
\* the JSON text of data (modern: allow_nan=False, ValueError raised as
\* InvalidJSONError); TypeError passes through.
PreparedPayload(data, era) ==
  IF ~IsNotNone(data) THEN [exc |-> "", hasBody |-> FALSE, payload |-> << >>]
  ELSE LET r == Encode(data, era = "legacy")
       IN  [ exc |-> IF r.exc = "ValueError" THEN "InvalidJSONError" ELSE r.exc,
             hasBody |-> r.exc = "", payload |-> r.s ]


\* ------------------------------------------------------------ the dispatcher
\* str(int(time.time() * 1000))
CurrentTimestamp(clk) == StrNat(clk)

\* A body preparation that leaves out what json.dumps rejects.
RequestBodySkipUnserializable(data) ==
  IF Truthy(data) /\ JsonDumps(data).exc = "" THEN JsonDumps(data) ELSE JsonOk(<< >>)

\* body = ""; if data: body = json.dumps(data)
RequestBody(data) == IF Truthy(data) THEN JsonDumps(data) ELSE JsonOk(<< >>)

\* A timestamp header that reads the clock again.
HeaderTimestampReread == CurrentTimestamp(clock)

\* The value of the "X-Robinhood-Timestamp" header.
HeaderTimestamp == frame.timestamp

Headers ==
  [ ContentType |-> << "a", "p", "p", "l", "i", "c", "a", "t", "i", "o", "n", "/", "j", "s", "o", "n" >>,
    Accept |-> << "a", "p", "p", "l", "i", "c", "a", "t", "i", "o", "n", "/", "j", "s", "o", "n" >>,
    XRobinhoodAPIKey |-> cred.ROBINHOOD_API_KEY,
    XRobinhoodClientId |-> cred.ROBINHOOD_CLIENT_ID,
    XRobinhoodSignature |-> frame.signature,
    XRobinhoodTimestamp |-> HeaderTimestamp ]

\* f"{BASE_URL}{path}"
Url(path) == BASE_URL \o path

\* An except chain that handles HTTPError alone.
ExceptClauseHttpOnly(exc) == IF IsInstance(exc, "HTTPError") THEN "HTTPError" ELSE ""

\* The except clause that handles exc: the first whose class exc is an
\* instance of, or none.
ExceptClause(exc) ==
  IF IsInstance(exc, "HTTPError") THEN "HTTPError"
  ELSE IF IsInstance(exc, "RequestException") THEN "RequestException"
  ELSE ""

\* A handler that sends the request again after a failure.
RetryAfterFailure == "L100"

\* Where an except clause leaves the call: `return None`.
AfterFailure == "returned"

\* The end of the try statement, given what its body produced: a value r.value
\* (r.exc = "") or an exception r.exc.
Settle(r) ==
  LET clause == ExceptClause(r.exc)
  IN  /\ outcome' = IF r.exc = "" THEN Return(r.value)
                    ELSE IF clause # "" THEN Return(PyNone)
                    ELSE Raise(r.exc)
      /\ printed' = printed \o
                    ( IF clause = "HTTPError" THEN << "HTTP Error", "Response Content" >>
                      ELSE IF clause = "RequestException" THEN << "Request Error" >>
                      ELSE << >> )
      /\ pc' = IF r.exc = "" THEN "returned"
               ELSE IF clause # "" THEN AfterFailure
               ELSE "raised"

\* The call make_authenticated_request(method, path, data) begins: a new
\* frame, no local bound.
make_authenticated_request(method, path, data) ==
  /\ pc' = "L62"
  /\ args' = [method |-> method, path |-> path, data |-> data]
  /\ frame' = NoFrame
  /\ sent' = NoRequest
  /\ reply' = NoReply
  /\ outcome' = Running
  /\ hist' = NoHist
  /\ printed' = << >>

\* Line 62.
CaptureTimestamp ==
  /\ pc = "L62"
  /\ frame' = [frame EXCEPT !.timestamp = CurrentTimestamp(clock)]
  /\ hist' = [hist EXCEPT !.clockReads = @ + 1, !.clockRead = clock]
  /\ pc' = "L65"
  /\ UNCHANGED << procVars, clock, nWire, args, sent, reply, outcome, printed,
                  mainVars, calls, sgVars >>

\* Lines 65-67; an exception of json.dumps leaves the function.
PrepareBody ==
  /\ pc = "L65"
  /\ LET r == RequestBody(args.data)
     IN  IF r.exc = ""
         THEN /\ frame' = [frame EXCEPT !.body = r.s]
              /\ pc' = "L70"
              /\ outcome' = outcome
         ELSE /\ frame' = frame
              /\ pc' = "raised"
              /\ outcome' = Raise(r.exc)
  /\ UNCHANGED << procVars, clock, nWire, args, sent, reply, hist, printed,
                  mainVars, calls, sgVars >>

\* Lines 70-78.
Sign ==
  /\ pc = "L70"
  /\ frame' = [frame EXCEPT !.signature =
                 generate_signature(cred.ROBINHOOD_API_KEY, cred.ROBINHOOD_CLIENT_ID,
                                    cred.ROBINHOOD_SHARED_SECRET, frame.timestamp,
                                    args.method, args.path, frame.body)]
  /\ hist' = [hist EXCEPT !.signCalls = @ + 1,
                          !.signed = [timestamp |-> frame.timestamp, method |-> args.method,
                                      path |-> args.path, body |-> frame.body]]
  /\ pc' = "L83"
  /\ UNCHANGED << procVars, clock, nWire, args, sent, reply, outcome, printed,
                  mainVars, calls, sgVars >>

\* Lines 83-97: the headers, the url and the diagnostic output.
Announce ==
  /\ pc = "L83"
  /\ frame' = [frame EXCEPT !.headers = Headers, !.url = Url(args.path)]
  /\ printed' = printed \o << "Making request", "Headers" >> \o
                (IF Truthy(args.data) THEN << "Body" >> ELSE << >>)
  /\ pc' = "L100"
  /\ UNCHANGED << procVars, clock, nWire, args, sent, reply, outcome, hist,
                  mainVars, calls, sgVars >>

\* Line 100, requests.request(method, url, headers=headers, json=data), up to
\* the request leaving: the library prepares the body and sends.
Request ==
  /\ pc = "L100"
  /\ LET p == PreparedPayload(args.data, requestsEra)
     IN  IF p.exc = ""
         THEN /\ sent' = [ issued |-> TRUE, method |-> Upper(args.method),
                           url |-> frame.url, headers |-> frame.headers,
                           hasBody |-> p.hasBody, payload |-> p.payload ]
              /\ hist' = [hist EXCEPT !.httpCalls = @ + 1, !.requests = @ + 1]
              /\ nWire' = nWire + 1
              /\ pc' = "inflight"
              /\ UNCHANGED << outcome, printed >>
         ELSE /\ Settle([exc |-> p.exc, value |-> PyNone])
              /\ hist' = [hist EXCEPT !.httpCalls = @ + 1]
              /\ UNCHANGED << sent, nWire >>
  /\ UNCHANGED << procVars, clock, args, frame, reply, mainVars, calls, sgVars >>

\* The HTTP layer returns a response; lines 101-106.
Respond(status, text) ==
  /\ pc = "inflight"
  /\ reply' = [kind |-> "response", status |-> status, text |-> text, exc |-> ""]
  /\ Settle( IF RaiseForStatus(status) # ""
             THEN [exc |-> RaiseForStatus(status), value |-> PyNone]
             ELSE ResponseJson(text, requestsEra) )
  /\ UNCHANGED << procVars, clock, nWire, args, frame, sent, hist, mainVars, calls, sgVars >>

\* The HTTP layer raises a transport error; lines 107-109.
TransportFail(exc) ==
  /\ pc = "inflight"
  /\ reply' = [kind |-> "error", status |-> 0, text |-> << >>, exc |-> exc]
  /\ Settle([exc |-> exc, value |-> PyNone])
  /\ UNCHANGED << procVars, clock, nWire, args, frame, sent, hist, mainVars, calls, sgVars >>

\* Time passes.
Tick ==
  /\ clock < MaxClock
  /\ clock' = clock + 1
  /\ UNCHANGED << procVars, nWire, callVars, mainVars, calls, sgVars >>

\* ------------------------------------------------------------------ callers
Methods == { << "G", "E", "T" >>, << "p", "o", "s", "t" >> }
Paths == { << >>, << "o", "/" >> }

\* The data arguments: None, {}, [], {"a": 1}, set(), {1}, float('nan').
Datas ==
  { PyNone, PyDict(<< >>), PyList(<< >>), PyDict(<< PyStr(<< "a" >>), PyInt(1) >>),
    PySet(<< >>), PySet(<< PyInt(1) >>), PyNaN }

Statuses == {200, 299, 300, 304, 400, 404, 599}

\* Response bodies: {"ok": true}, null, the empty body, and <h>.
Texts ==
  { << "{", DQ, "o", "k", DQ, ":", " ", "t", "r", "u", "e", "}" >>,
    << "n", "u", "l", "l" >>, << >>, << "<", "h", ">" >> }

\* An importing caller calls the dispatcher.
LibCall(method, path, data) ==
  /\ runAs = "import"
  /\ pc = "idle"
  /\ calls < MaxCalls
  /\ calls' = calls + 1
  /\ make_authenticated_request(method, path, data)
  /\ UNCHANGED << procVars, clock, nWire, mainVars, sgVars >>

\* The call is over: its result, or its exception, is the caller's, and its
\* frame is gone.
LibReturn ==
  /\ runAs = "import"
  /\ pc \in {"returned", "raised"}
  /\ pc' = "idle"
  /\ args' = NoArgs
  /\ frame' = NoFrame
  /\ sent' = NoRequest
  /\ reply' = NoReply
  /\ hist' = NoHist
  /\ printed' = << >>
  /\ UNCHANGED << procVars, clock, nWire, outcome, mainVars, calls, sgVars >>

\* f"trading/accounts/{ROBINHOOD_ACCOUNT_NUMBER}/crypto_holdings/"
AccountPath == AccountPathPrefix \o cred.ROBINHOOD_ACCOUNT_NUMBER \o AccountPathSuffix

\* Lines 113-126: the banner, and the call for the holdings.
MainFetch ==
  /\ runAs = "__main__"
  /\ mainPc = "L113"
  /\ mainPrinted' = mainPrinted \o << "banner", "Attempting to fetch" >>
  /\ make_authenticated_request(<< "G", "E", "T" >>, AccountPath, PyNone)
  /\ mainPc' = "L126"
  /\ UNCHANGED << procVars, clock, nWire, account_info, calls, sgVars >>

\* Lines 126-133: the call returned.
MainReport ==
  /\ mainPc = "L126"
  /\ pc = "returned"
  /\ account_info' = outcome.value
  /\ mainPrinted' = mainPrinted \o
       (IF Truthy(outcome.value) THEN << "Account Info Received" >> ELSE << "Failed to retrieve" >>)
  /\ mainPc' = "L137"
  /\ pc' = "idle"
  /\ UNCHANGED << procVars, clock, nWire, args, frame, sent, reply, outcome, hist,
                  printed, calls, sgVars >>

\* Line 126: the call raised, and the script ends with the traceback.
MainCrash ==
  /\ mainPc = "L126"
  /\ pc = "raised"
  /\ mainPc' = "crashed"
  /\ pc' = "idle"
  /\ UNCHANGED << procVars, clock, nWire, args, frame, sent, reply, outcome, hist,
                  printed, account_info, mainPrinted, calls, sgVars >>

\* Line 158: the test for the placeholder.
UsingPlaceholder == cred.ROBINHOOD_API_KEY = YOUR_ROBINHOOD_API_KEY

\* Lines 137-175: the order is printed, never sent.
MainOrder ==
  /\ mainPc = "L137"
  /\ mainPrinted' = mainPrinted \o << "Attempting to place" >> \o
       ( IF UsingPlaceholder THEN << "Using placeholder API keys", "Buy Order Placed (MOCK)" >>
         ELSE << "Using actual API keys" >> ) \o << "Complete" >>
  /\ mainPc' = "complete"
  /\ UNCHANGED << procVars, clock, nWire, callVars, account_info, calls, sgVars >>


\* ------------------------------------------------------------ signer harness
\* The strings over an alphabet with lo..hi characters.
Strings(alphabet, lo, hi) == UNION { [1..n -> alphabet] : n \in lo..hi }

SgSecrets == Strings({"k", "K"}, 1, MaxSignLen)
SgTimestamps == { CurrentTimestamp(n) : n \in 0..MaxClock }
SgMethods == Strings({"g", "G", SharpS}, 1, MaxSignLen)
SgPaths == Strings({"a", "/"}, 0, MaxSignLen)
SgBodies == Strings({"a", "{"}, 0, MaxSignLen)

SgInputs ==
  [ secret : SgSecrets, timestamp : SgTimestamps, method : SgMethods,
    path : SgPaths, body : SgBodies ]

NoSgInput ==
  [secret |-> << >>, timestamp |-> << >>, method |-> << >>, path |-> << >>, body |-> << >>]

\* generate_signature applied to the inputs in; the api key and the client
\* id are parameters it never reads.
SignOf(in) ==
  generate_signature(YOUR_ROBINHOOD_API_KEY, YOUR_ROBINHOOD_CLIENT_ID,
                     in.secret, in.timestamp, in.method, in.path, in.body)

\* The signer is applied to the drawn inputs.
SgApply ==
  /\ sgPc = "drawn"
  /\ sgOut' = SignOf(sgIn)
  /\ sgPc' = "signed"
  /\ UNCHANGED << procVars, clock, nWire, callVars, mainVars, calls, sgIn, sgAlt, sgAltOut >>

\* The signer is applied again, with one input replaced by another value.
SgVary(field, value) ==
  /\ sgPc = "signed"
  /\ sgIn[field] # value
  /\ sgAlt' = [sgIn EXCEPT ![field] = value]
  /\ sgAltOut' = SignOf(sgAlt')
  /\ sgPc' = "compared"
  /\ UNCHANGED << procVars, clock, nWire, callVars, mainVars, calls, sgIn, sgOut >>

\* ------------------------------------------------------------ specifications
ProcInit ==
  /\ cred = Credentials(environ)
  /\ clock = 0
  /\ nWire = 0
  /\ pc = "idle"
  /\ args = NoArgs
  /\ frame = NoFrame
  /\ sent = NoRequest
  /\ reply = NoReply
  /\ outcome = Running
  /\ hist = NoHist
  /\ printed = << >>
  /\ account_info = PyNone
  /\ mainPrinted = << >>
  /\ calls = 0

SgOff ==
  /\ sgPc = "off"
  /\ sgIn = NoSgInput
  /\ sgAlt = NoSgInput
  /\ sgOut = NoSignature
  /\ sgAltOut = NoSignature

\* The module is loaded, as a script or by an importing caller.
Init ==
  /\ environ \in Environments
  /\ requestsEra \in {"legacy", "modern"}
  /\ ProcInit
  /\ runAs \in {"__main__", "import"}
  /\ mainPc = IF runAs = "__main__" THEN "L113" ELSE "off"
  /\ SgOff

Next ==
  \/ \E m \in Methods, p \in Paths, d \in Datas : LibCall(m, p, d)
  \/ LibReturn
  \/ MainFetch
  \/ MainReport
  \/ MainCrash
  \/ MainOrder
  \/ CaptureTimestamp
  \/ PrepareBody
  \/ Sign
  \/ Announce
  \/ Request
  \/ \E st \in Statuses, tx \in Texts : Respond(st, tx)
  \/ \E e \in TransportErrors : TransportFail(e)
  \/ Tick

Spec == Init /\ [][Next]_vars

\* The signer alone, on inputs drawn from bounded sets.
InitSign ==
  /\ environ = [name \in {"RH_API_KEY", "RH_CLIENT_ID", "RH_SHARED_SECRET", "RH_ACCOUNT_NUMBER"} |-> EnvUnset]
  /\ requestsEra = "modern"
  /\ ProcInit
  /\ runAs = "import"
  /\ mainPc = "off"
  /\ sgPc = "drawn"
  /\ sgIn \in SgInputs
  /\ sgAlt = NoSgInput
  /\ sgOut = NoSignature
  /\ sgAltOut = NoSignature

NextSign ==
  \/ SgApply
  \/ \E v \in SgSecrets : SgVary("secret", v)
  \/ \E v \in SgTimestamps : SgVary("timestamp", v)
  \/ \E v \in SgMethods : SgVary("method", v)
  \/ \E v \in SgPaths : SgVary("path", v)
  \/ \E v \in SgBodies : SgVary("body", v)

SpecSign == InitSign /\ [][NextSign]_vars


\* ------------------------------------------------------------------- claims
\* The call in progress has ended, by return or by an escaping exception.
Ended == pc \in {"returned", "raised"}

Is2xx(status) == status >= 200 /\ status <= 299

\* C1, as claimed: a call whose response has a status outside 2xx returns
\* None.
C1_Non2xxReturnsNone ==
  (Ended /\ reply.kind = "response" /\ ~Is2xx(reply.status)) => outcome = Return(PyNone)

\* C1, amended: a call whose response has a 4xx or 5xx status returns None,
\* and no exception escapes.
C1_ErrorStatusReturnsNone ==
  (Ended /\ reply.kind = "response" /\ reply.status >= 400 /\ reply.status <= 599)
    => outcome = Return(PyNone)

\* C1: a call answered 404 with a JSON body has returned None.
C1_Witness ==
  /\ pc = "returned"
  /\ reply.kind = "response"
  /\ reply.status = 404
  /\ JsonLoads(reply.text).exc = ""
  /\ outcome = Return(PyNone)
  /\ printed[Len(printed)] = "Response Content"

\* C2, as claimed: a call whose response has a 2xx status returns the body
\* parsed as JSON, never None and never an exception.
C2_2xxReturnsParsedJson ==
  (Ended /\ reply.kind = "response" /\ Is2xx(reply.status))
    => /\ outcome.kind = "return"
       /\ outcome.value # PyNone
       /\ JsonLoads(reply.text) = [exc |-> "", v |-> outcome.value]

\* C2, amended: a call whose response has a 2xx status and a body that is
\* valid JSON returns that body parsed as JSON (None for the body null), and
\* no exception escapes.
C2_ValidJson2xxReturnsParsed ==
  (Ended /\ reply.kind = "response" /\ Is2xx(reply.status) /\ JsonLoads(reply.text).exc = "")
    => outcome = Return(JsonLoads(reply.text).v)

\* C2: a call with a payload, answered 299 with the body {"ok": true}, has
\* returned the parsed object.
C2_Witness ==
  /\ pc = "returned"
  /\ reply.kind = "response"
  /\ reply.status = 299
  /\ args.data # PyNone
  /\ outcome = Return(PyDict(<< PyStr(<< "o", "k" >>), PyBool(TRUE) >>))

\* C3: a call in which the HTTP layer raises a transport error returns None,
\* the result of a call answered by an HTTP error, and no exception escapes.
C3_TransportErrorReturnsNone ==
  (Ended /\ reply.kind = "error") => outcome = Return(PyNone)

\* C3: a call whose request timed out has returned None.
C3_Witness ==
  /\ pc = "returned"
  /\ reply.kind = "error"
  /\ reply.exc = "ReadTimeout"
  /\ outcome = Return(PyNone)
  /\ printed[Len(printed)] = "Request Error"

\* C4, as claimed: the body concatenated into the signed message is the body
\* transmitted: empty exactly when no payload is sent, and else the payload.
C4_SignedBodyIsSentPayload ==
  sent.issued =>
    /\ (hist.signed.body = << >>) <=> ~sent.hasBody
    /\ sent.hasBody => hist.signed.body = sent.payload

\* C5, as claimed: a run of the driver with the credential variables unset
\* issues no HTTP request.
C5_UnconfiguredRunIssuesNoRequest ==
  (runAs = "__main__" /\ AllUnset(environ)) => nWire = 0

\* Two strings of one length that differ at most in the case of ASCII letters.
DiffersOnlyInCase(a, b) ==
  /\ Len(a) = Len(b)
  /\ \A i \in 1..Len(a) :
       \/ a[i] = b[i]
       \/ /\ IsAscii(a[i]) /\ IsAscii(b[i])
          /\ \/ Ord(a[i]) >= 97 /\ Ord(a[i]) <= 122 /\ Ord(b[i]) = Ord(a[i]) - 32
             \/ Ord(b[i]) >= 97 /\ Ord(b[i]) <= 122 /\ Ord(a[i]) = Ord(b[i]) - 32

\* C6: two applications of the signer whose inputs differ only in the letter
\* case of the method return the same signature.
C6_MethodCaseInsensitive ==
  (sgPc = "compared" /\ DiffersOnlyInCase(sgIn.method, sgAlt.method)
     /\ sgAlt = [sgIn EXCEPT !.method = sgAlt.method])
    => sgOut = sgAltOut

\* C6: the signer applied to "g" and to "G", with a body, gave one signature.
C6_Witness ==
  /\ sgPc = "compared"
  /\ sgIn.method = << "g" >>
  /\ sgAlt.method = << "G" >>
  /\ sgIn.body # << >>
  /\ sgOut = sgAltOut

\* C7, as claimed: replacing any one input of the signer by a different value
\* changes the signature.
C7_AnySingleChangeChangesSignature ==
  (sgPc = "compared" /\ sgAlt # sgIn) => sgOut # sgAltOut

\* C7, amended: replacing the secret, the timestamp, the path or the body by
\* a different value, or the method by one whose uppercase form differs,
\* changes the signature.
C7_SingleChangeUpToMethodCase ==
  (sgPc = "compared" /\ sgAlt # sgIn
     /\ (sgAlt.method = sgIn.method \/ Upper(sgAlt.method) # Upper(sgIn.method)))
    => sgOut # sgAltOut

\* C7: the signer applied to an empty and to a non-empty body gave two
\* signatures.
C7_Witness ==
  /\ sgPc = "compared"
  /\ sgIn.body = << >>
  /\ sgAlt.body = << "a" >>
  /\ sgAlt.method = sgIn.method
  /\ sgOut # sgAltOut

\* The call handed a request to the HTTP layer and the request failed: a
\* transport error, or a response with an error status.
RequestFailed ==
  \/ reply.kind = "error"
  \/ reply.kind = "response" /\ RaiseForStatus(reply.status) # ""

\* C8, as claimed: a call that reaches the HTTP step issues exactly one
\* request and then ends with a result or None.
C8_OneRequestThenResultOrNone ==
  (Ended /\ hist.httpCalls > 0) => (hist.requests = 1 /\ outcome.kind = "return")

\* The request determined by the arguments of a call, the clock reading clk
\* and the credentials.
RequestOf(a, clk) ==
  [ issued |-> TRUE,
    method |-> Upper(a.method),
    url |-> BASE_URL \o a.path,
    headers |->
      [ ContentType |-> << "a", "p", "p", "l", "i", "c", "a", "t", "i", "o", "n", "/", "j", "s", "o", "n" >>,
        Accept |-> << "a", "p", "p", "l", "i", "c", "a", "t", "i", "o", "n", "/", "j", "s", "o", "n" >>,
        XRobinhoodAPIKey |-> cred.ROBINHOOD_API_KEY,
        XRobinhoodClientId |-> cred.ROBINHOOD_CLIENT_ID,
        XRobinhoodSignature |->
          B64(HmacSha256(Utf8(cred.ROBINHOOD_SHARED_SECRET),
                         Utf8(StrNat(clk) \o Upper(a.method) \o a.path
                              \o (IF Truthy(a.data) THEN JsonDumps(a.data).s ELSE << >>)))),
        XRobinhoodTimestamp |-> StrNat(clk) ],
    hasBody |-> IsNotNone(a.data),
    payload |-> IF IsNotNone(a.data) THEN Encode(a.data, requestsEra = "legacy").s ELSE << >> ]

\* C8, amended: a call invokes the HTTP layer at most once and issues at most
\* one request, exactly one once the request was answered; after a failed
\* request it returns None and has issued no second request; the request it
\* issues is determined by its own arguments, its own clock reading and the
\* credentials.
C8_AtMostOneRequestNoRetry ==
  /\ hist.httpCalls <= 1
  /\ hist.requests <= hist.httpCalls
  /\ reply.kind # "none" => hist.requests = 1
  /\ (Ended /\ RequestFailed) => (outcome = Return(PyNone) /\ hist.requests = 1)
  /\ sent.issued => sent = RequestOf(args, hist.clockRead)

\* C8: the second call of a caller ended after a failed request, the second
\* request of the process.
C8_Witness ==
  /\ pc = "returned"
  /\ calls = 2
  /\ nWire = 2
  /\ RequestFailed
  /\ hist.requests = 1
  /\ outcome = Return(PyNone)

C10_TimestampReadOnceAndShared ==
  /\ hist.clockReads <= 1
  /\ pc \in {"L65", "L70", "L83", "L100", "inflight", "returned", "raised"}
       => /\ hist.clockReads = 1
          /\ frame.timestamp = CurrentTimestamp(hist.clockRead)
  /\ sent.issued
       => /\ hist.signCalls = 1
          /\ hist.signed.timestamp = CurrentTimestamp(hist.clockRead)
          /\ sent.headers.XRobinhoodTimestamp = hist.signed.timestamp
          /\ sent.headers.XRobinhoodSignature =
               generate_signature(cred.ROBINHOOD_API_KEY, cred.ROBINHOOD_CLIENT_ID,
                                  cred.ROBINHOOD_SHARED_SECRET, hist.signed.timestamp,
                                  hist.signed.method, hist.signed.path, hist.signed.body)

\* C10: the second call of a caller has issued a request stamped with its own
\* clock reading.
C10_Witness ==
  /\ sent.issued
  /\ calls = 2
  /\ hist.clockRead = 1
  /\ sent.headers.XRobinhoodTimestamp = << "1" >>


====
